---------------------------- MODULE Spec2Model ----------------------------
(***************************************************************************)
(* A model of the two header-only libraries of the repository:             *)
(*   hashmap.h  an open-addressing hash table with linear probing, a       *)
(*              bounded-probe lookup (maxcol) and lazy removal;            *)
(*   arena.h    a region-based bump allocator with an inline header        *)
(*              before every payload.                                      *)
(* Every operator keeps the name of the macro or function it models.       *)
(***************************************************************************)
EXTENDS Integers, Sequences, FiniteSets, TLC

VARIABLES
    hm,        \* the table: [items, count, capacity, maxcol] (MAKE_HASHMAP)
    aborted,   \* TRUE once the program using the table has called abort()
    lastOp,    \* the table operation that returned last
    removes,   \* the number of calls of hashmap_remove so far
    expect,    \* per key: the value of its latest put, NoValue after a remove
    arena,     \* the arena: [total, regions], regions the chain from head to tail
    blocks,    \* the allocations made and not reclaimed, each with its state
    astate,    \* "ok", "aborted" (abort() was called, or the program faulted),
               \* or "undefined" (a header was written outside a region's buffer)
    nallocs,   \* the number of calls of arena_alloc so far
    nreallocs, \* the number of calls of arena_realloc so far
    newest,    \* the block of the latest arena_alloc
    reclaimed, \* the block the latest operation freed at the top of its region
    foreign,   \* the size_t in front of a pointer that no arena_alloc returned
    released   \* how many regions of the chain, from the head on, arena_deinit
               \* has handed back to the backing allocator

hvars == <<hm, aborted, lastOp, removes, expect>>

avars == <<arena, blocks, astate, nallocs, nreallocs, newest, reclaimed,
           foreign, released>>

vars == <<hm, aborted, lastOp, removes, expect,
          arena, blocks, astate, nallocs, nreallocs, newest, reclaimed,
          foreign, released>>

---------------------------------------------------------------------------
(* Bounds of the model.                                                    *)

\* put and grow are not taken once capacity would pass
\* HASHMAP_CAP_DEFAULT * 2^MaxGrows
MaxGrows == 1

\* hashmap_remove is called at most MaxRemoves times in a run
MaxRemoves == 2

\* arena_alloc is called at most MaxAllocs times in a run
MaxAllocs == 4

\* arena_realloc is called at most MaxReallocs times in a run
MaxReallocs == 2

\* the chain gets no longer than MaxRegions regions
MaxRegions == 2

\* size_t is modelled SizeBits wide; every size of the model is far below
\* 2^SizeBits, so each comparison comes out as with 64 bits
SizeBits == 20

\* the hash is kept to its low HashBits bits: exact for every index
\* hash & (capacity - 1) with capacity <= 2^HashBits
HashBits == 16

---------------------------------------------------------------------------
(* hashmap.h                                                               *)

HASHMAP_CAP_DEFAULT == 8

\* 0xcbf29ce484222325 and 0x100000001b3, their low 24 bits
FNV_OFFSET_BASIS == 2237221
FNV_PRIME == 435

HashModulus == 2 ^ HashBits

MaxCapacity == HASHMAP_CAP_DEFAULT * (2 ^ MaxGrows)

\* keys are byte strings: "a" "i" "b" "ab"; "a" and "i" share the home slot 6
\* of a table of capacity 8, and "ab" has the first byte of "a"
Keys == { <<97>>, <<105>>, <<98>>, <<97, 98>> }

\* and "q" "c" "d" "e", to fill a fresh table past its load factor; "a" and
\* "q" share the home slot 14 of a table of capacity 16
FillKeys == Keys \cup { <<113>>, <<99>>, <<100>>, <<101>> }

Values == {1, 2}

\* the value put by the runs that fill the table and remove from it
FillValues == {1}


RECURSIVE BitXor(_, _)
BitXor(a, b) ==
    IF a = 0 THEN b
    ELSE IF b = 0 THEN a
    ELSE (((a % 2) + (b % 2)) % 2) + 2 * BitXor(a \div 2, b \div 2)

RECURSIVE BitAnd(_, _)
BitAnd(a, b) ==
    IF a = 0 \/ b = 0 THEN 0
    ELSE (a % 2) * (b % 2) + 2 * BitAnd(a \div 2, b \div 2)

\* FNV-1: multiply, then xor, byte by byte
RECURSIVE hashmap_hash_from(_, _, _)
hashmap_hash_from(str, i, hash) ==
    IF i > Len(str) THEN hash
    ELSE hashmap_hash_from(str, i + 1,
                           BitXor((hash * FNV_PRIME) % HashModulus, str[i]))

hashmap_hash(str) == hashmap_hash_from(str, 1, FNV_OFFSET_BASIS % HashModulus)

HashOf == [k \in FillKeys |-> hashmap_hash(k)]

\* s_hashmap_meta and the data of one entry; calloc zeroes it
ZeroEntry == [used |-> FALSE, key |-> <<>>, data |-> 0]

\* the data of an entry no put has written: what expect holds for a key
\* that was never put, or was removed
NoValue == ZeroEntry.data

HASHMAP_CAP_MASK(t) == t.capacity - 1

\* the home slot of a key in a table of the given capacity
HomeSlot(capacity, str) == BitAnd(HashOf[str], capacity - 1)

hashmap_match_item(item, kbuf) ==
    /\ kbuf[1] = item.key[1]
    /\ Len(kbuf) = Len(item.key)
    /\ kbuf = item.key

\* a lookup that gives up at the first unused slot of the probe sequence
RECURSIVE hashmap_lookup_stops_at_unused(_, _, _, _, _)
hashmap_lookup_stops_at_unused(t, str, mask, index, col) ==
    IF col > t.maxcol \/ ~t.items[index].used THEN -1
    ELSE IF str = t.items[index].key
         THEN index
         ELSE hashmap_lookup_stops_at_unused(t, str, mask,
                                             BitAnd(index + 1, mask), col + 1)

RECURSIVE hashmap_lookup_from(_, _, _, _, _)
hashmap_lookup_from(t, str, mask, index, col) ==
    IF col > t.maxcol THEN -1
    ELSE IF /\ t.items[index].used
            /\ t.items[index].key[1] = str[1]
            /\ Len(t.items[index].key) = Len(str)
            /\ str = t.items[index].key
         THEN index
         ELSE hashmap_lookup_from(t, str, mask, BitAnd(index + 1, mask), col + 1)

\* defined for capacity >= 1; with capacity 0 the first probe reads outside
\* the (empty) array
hashmap_lookup(t, str) ==
    hashmap_lookup_from(t, str, t.capacity - 1,
                        BitAnd(HashOf[str], t.capacity - 1), 0)

hashmap_contains(t, str) == hashmap_lookup(t, str) >= 0

hashmap_get(t, str) == t.items[hashmap_lookup(t, str)].data

\* the value an operator yields when the code calls abort()
ABORT == [abort |-> TRUE]

IsAbort(r) == "abort" \in DOMAIN r

\* calloc(0, n) returns NULL or a pointer to no bytes, as the C library
\* chooses: the values of "calloc returned NULL" for a request of cap items
CallocNull(cap) == IF cap = 0 THEN BOOLEAN ELSE {FALSE}

hashmap_init_cap(cap, null) ==
    IF null THEN ABORT
    ELSE [items |-> [i \in 0 .. cap - 1 |-> ZeroEntry],
          count |-> 0, maxcol |-> 0, capacity |-> cap]

hashmap_init == hashmap_init_cap(HASHMAP_CAP_DEFAULT, FALSE)

\* the probe loop of hashmap_put_nogrow: <<slot, collisions counted>>
RECURSIVE hashmap_put_nogrow_probe(_, _, _, _)
hashmap_put_nogrow_probe(t, kbuf, index, n) ==
    IF t.items[index].used /\ ~hashmap_match_item(t.items[index], kbuf)
    THEN hashmap_put_nogrow_probe(t, kbuf,
                                  BitAnd(index + 1, HASHMAP_CAP_MASK(t)), n + 1)
    ELSE <<index, n>>

\* a hashmap_put_nogrow that never raises maxcol
hashmap_put_nogrow_keeps_maxcol(t, value, kbuf) ==
    IF t.count >= t.capacity THEN ABORT
    ELSE LET p == hashmap_put_nogrow_probe(t, kbuf,
                      BitAnd(HashOf[kbuf], HASHMAP_CAP_MASK(t)), 0)
             index == p[1]
         IN IF t.items[index].used
            THEN [t EXCEPT !.items[index].data = value]
            ELSE [t EXCEPT !.items[index] =
                               [used |-> TRUE, key |-> kbuf, data |-> value],
                           !.count = t.count + 1]

hashmap_put_nogrow(t, value, kbuf) ==
    IF t.count >= t.capacity THEN ABORT
    ELSE LET p == hashmap_put_nogrow_probe(t, kbuf,
                      BitAnd(HashOf[kbuf], HASHMAP_CAP_MASK(t)), 0)
             index == p[1]
             n == p[2]
         IN IF t.items[index].used
            THEN [t EXCEPT !.items[index].data = value]
            ELSE [t EXCEPT !.items[index] =
                               [used |-> TRUE, key |-> kbuf, data |-> value],
                           !.count = t.count + 1,
                           !.maxcol = IF t.maxcol < n THEN n ELSE t.maxcol]

\* the re-insertion loop of grow and shrink: the entries of t at index,
\* index + 1, ... below limit are put into tmp, in that order
RECURSIVE hashmap_reinsert(_, _, _, _)
hashmap_reinsert(t, tmp, index, limit) ==
    IF index >= limit \/ IsAbort(tmp) THEN tmp
    ELSE hashmap_reinsert(t,
             IF t.items[index].used
             THEN hashmap_put_nogrow(tmp, t.items[index].data, t.items[index].key)
             ELSE tmp,
             index + 1, limit)

hashmap_grow(t, null) ==
    hashmap_reinsert(t, hashmap_init_cap(t.capacity * 2, null), 0, t.capacity)

hashmap_shrink(t, null) ==
    IF t.count > t.capacity \div 4 THEN t
    ELSE hashmap_reinsert(t, hashmap_init_cap(t.capacity \div 2, null), 0, t.count)

\* (double)count / (double)capacity >= 0.7: the quotient of a count by a
\* power of two is exact and never within an ulp of 0.7; 0/0 is NaN, which
\* compares false, and n/0 is +inf
\* a threshold of 0.8 instead of 0.7
LoadFactorReached_at_08(t) ==
    IF t.capacity = 0 THEN t.count > 0 ELSE 10 * t.count >= 8 * t.capacity

\* a threshold above 1 instead of 0.7
LoadFactorReached_above_one(t) ==
    IF t.capacity = 0 THEN t.count > 0 ELSE 10 * t.count >= 11 * t.capacity

LoadFactorReached(t) ==
    IF t.capacity = 0 THEN t.count > 0 ELSE 10 * t.count >= 7 * t.capacity

\* a put that places the key first and tests the load factor afterwards
hashmap_put_then_grow(t, value, kbuf, null) ==
    LET p == hashmap_put_nogrow(t, value, kbuf)
    IN IF IsAbort(p) THEN ABORT
       ELSE IF LoadFactorReached(p) THEN hashmap_grow(p, null) ELSE p

hashmap_put(t, value, kbuf, null) ==
    LET g == IF LoadFactorReached(t) THEN hashmap_grow(t, null) ELSE t
    IN IF IsAbort(g) THEN ABORT ELSE hashmap_put_nogrow(g, value, kbuf)

\* the table as hashmap_put hands it to hashmap_put_nogrow
hashmap_put_entry(t, null) ==
    IF LoadFactorReached(t) THEN hashmap_grow(t, null) ELSE t

\* hashmap_index_var is not defined in hashmap.h: the index of the matched
\* slot, as hashmap_index computes it
hashmap_index_var(t, kbuf) == hashmap_lookup(t, kbuf)

\* lazy removal clears only the used flag; the key and data left behind are
\* never read again (hashmap_lookup, hashmap_put_nogrow, hashmap_grow and
\* hashmap_shrink all test used first), so the model keeps no trace of them
hashmap_remove(t, kbuf) ==
    LET index == hashmap_index_var(t, kbuf)
    IN IF index >= 0
       THEN [t EXCEPT !.items[index] = ZeroEntry, !.count = t.count - 1]
       ELSE t

---------------------------------------------------------------------------
(* arena.h                                                                 *)

ARENA_DEFAULT_CAPACITY == 2 * 4096

\* sizeof(struct _arena_alloc_header): one size_t
HeaderSize == 8

\* sizeof(struct _memory_region): size, offset and next
RegionStructSize == 24

SizeModulus == 2 ^ SizeBits

\* size_t arithmetic
SizeSub(a, b) == (a - b) % SizeModulus

SizeAdd(a, b) == (a + b) % SizeModulus

\* the sizes arena_alloc and arena_realloc are called with
AllocSizes == {0, 8176}

ReallocSizes == {8, 16}

\* the sizes the header in front of the foreign pointer holds at the start
ForeignSizes == {16}

\* no block: the value of newest and reclaimed when there is none
NoBlock == [region |-> 0, hdr |-> 0, size |-> 0]

\* p_arena arena = {0}: no region, head and tail NULL
ZeroArena == [total |-> 0, regions |-> <<>>]

\* _arena_append_region
arena_append_region(a, size) ==
    [a EXCEPT !.regions = Append(@, [size |-> size, offset |-> 0]),
              !.total = SizeAdd(a.total, RegionStructSize + size)]

arena_init(a) ==
    arena_append_region([a EXCEPT !.total = 0], ARENA_DEFAULT_CAPACITY)

\* the scan of arena_alloc: the first region from index i on with room for
\* required bytes, 0 when there is none
RECURSIVE arena_first_fit(_, _, _)
arena_first_fit(regions, required, i) ==
    IF i > Len(regions) THEN 0
    ELSE IF required <= SizeSub(regions[i].size, regions[i].offset) THEN i
    ELSE arena_first_fit(regions, required, i + 1)

\* arena_alloc: the arena afterwards, and the region and the offset in its
\* buffer of the header written; the payload follows the header
arena_alloc(a, size) ==
    LET a1 == IF Len(a.regions) = 0 THEN arena_init(a) ELSE a
        required == SizeAdd(HeaderSize, size)
        found == arena_first_fit(a1.regions, required, 1)
        a2 == IF found = 0
              THEN arena_append_region(a1,
                       IF required > ARENA_DEFAULT_CAPACITY
                       THEN required ELSE ARENA_DEFAULT_CAPACITY)
              ELSE a1
        region == IF found = 0 THEN Len(a2.regions) ELSE found
    IN [arena |-> [a2 EXCEPT !.regions[region].offset = SizeAdd(@, required)],
        region |-> region,
        hdr |-> a2.regions[region].offset]

\* the end of the payload of block b, as an offset in its region's buffer
EndOf(b) == b.hdr + HeaderSize + b.size

\* _arena_find_region: the first region whose used span [mem, mem + offset)
\* holds the payload of b, 0 when the scan ends in abort(); a pointer into
\* one region never lies in the span of another
RECURSIVE arena_find_region(_, _, _)
arena_find_region(a, b, i) ==
    IF i > Len(a.regions) THEN 0
    ELSE IF /\ i = b.region
            /\ b.hdr + HeaderSize >= 0
            /\ EndOf(b) <= a.regions[i].offset
         THEN i
         ELSE arena_find_region(a, b, i + 1)

\* arena_free of the payload pointer of block b
arena_free(a, b) ==
    LET region == arena_find_region(a, b, 1)
    IN IF region = 0 THEN ABORT
       ELSE IF EndOf(b) = a.regions[region].offset
            THEN [a EXCEPT !.regions[region].offset =
                               SizeSub(@, SizeSub(b.size, HeaderSize))]
            ELSE a

\* whether arena_free finds block b at the top of its region
AtTop(a, b) ==
    /\ arena_find_region(a, b, 1) # 0
    /\ EndOf(b) = a.regions[arena_find_region(a, b, 1)].offset

\* arena_realloc of block b to size: "shrink" (the header alone changes),
\* "grow" (in place, at the top of the region), "move" (a new allocation) or
\* "abort"
arena_realloc_path(a, b, size) ==
    IF size <= b.size THEN "shrink"
    ELSE LET region == arena_find_region(a, b, 1)
         IN IF region = 0 THEN "abort"
            ELSE IF /\ EndOf(b) = a.regions[region].offset
                    /\ SizeSub(size, b.size) <=
                         SizeSub(a.regions[region].size, a.regions[region].offset)
                 THEN "grow"
                 ELSE "move"

\* the arena after an arena_realloc that grows block b in place
arena_realloc_grow(a, b, size) ==
    [a EXCEPT !.regions[b.region].offset = SizeAdd(@, SizeSub(size, b.size))]

---------------------------------------------------------------------------
(* The initial state: main() before its first call.                        *)

Init ==
    /\ hm = hashmap_init
    /\ aborted = FALSE
    /\ lastOp = "init"
    /\ removes = 0
    /\ expect = [k \in FillKeys |-> NoValue]
    /\ arena = ZeroArena
    /\ blocks = {}
    /\ astate = "ok"
    /\ nallocs = 0
    /\ nreallocs = 0
    /\ newest = NoBlock
    /\ reclaimed = NoBlock
    /\ foreign \in ForeignSizes
    /\ released = 0

---------------------------------------------------------------------------
(* The program using the arena.                                            *)

Live == { b \in blocks : b.state = "live" }

\* a block record: where arena_alloc placed it (region, hdr), the size its
\* header holds, its state ("live", "freed" while not at the top, "moved" by
\* arena_realloc), the region and offset whose bytes it occupies (at), and
\* what its payload holds (data): its first data.len bytes are those of the
\* payload placed at data.of
Block(region, hdr, size, at, data) ==
    [region |-> region, hdr |-> hdr, size |-> size, state |-> "live", at |-> at,
     data |-> data]

\* the payload of a block that arena_alloc returns to the program: its own
\* bytes, whatever they are
OwnPayload(p, size) ==
    [of |-> [region |-> p.region, hdr |-> p.hdr], len |-> size]

\* memcpy(new, header->mem, header->size): the payload of the block to which
\* arena_realloc moves block b
CopiedPayload(b) ==
    [of |-> [region |-> b.region, hdr |-> b.hdr], len |-> b.size]

\* the bytes a header written outside its region's buffer may land on: memory
\* of no region (region 0), or the bytes of a block of another region, which
\* the backing allocator may have placed right behind this one
Landing(region) ==
    {[region |-> 0, hdr |-> 0]} \cup
    { b.at : b \in { x \in blocks : x.region # region /\ x.at.region # 0 } }

\* the outcome of an arena_alloc of size bytes, p its plan: the new block
\* joins the blocks of rest; a header outside the buffer is undefined
\* behaviour, after which the run is not followed further
Allocated(p, size, rest, data) ==
    /\ Len(p.arena.regions) <= MaxRegions
    /\ nallocs < MaxAllocs
    /\ nallocs' = nallocs + 1
    /\ IF p.hdr + HeaderSize <= p.arena.regions[p.region].size
       THEN /\ arena' = p.arena
            /\ blocks' = rest \cup
                   {Block(p.region, p.hdr, size,
                          [region |-> p.region, hdr |-> p.hdr], data)}
            /\ newest' = [region |-> p.region, hdr |-> p.hdr, size |-> size]
            /\ astate' = "ok"
       ELSE \/ /\ astate' = "aborted"
               /\ UNCHANGED <<arena, blocks, newest>>
            \/ /\ astate' = "undefined"
               /\ arena' = p.arena
               /\ newest' = [region |-> p.region, hdr |-> p.hdr, size |-> size]
               /\ \E at \in Landing(p.region) :
                      blocks' = rest \cup {Block(p.region, p.hdr, size, at, data)}

\* _arena_append_region writes tail->next: once arena_deinit has released
\* the tail that write is undefined behaviour
ArenaInit ==
    /\ astate = "ok"
    /\ Len(arena.regions) < MaxRegions
    /\ IF released = 0
       THEN /\ arena' = arena_init(arena)
            /\ UNCHANGED astate
       ELSE \/ /\ astate' = "aborted"
               /\ UNCHANGED arena
            \/ /\ astate' = "undefined"
               /\ arena' = arena_init(arena)
    /\ reclaimed' = NoBlock
    /\ UNCHANGED <<blocks, nallocs, nreallocs, newest>>
    /\ UNCHANGED <<hvars, foreign, released>>

\* an arena_alloc of size bytes, p its plan, after arena_deinit has released
\* regions that head and tail still point to: the scan reads released
\* memory, which is undefined behaviour; the program faults, or the memory
\* still holds what the regions held and the block is placed as planned, in
\* memory that is no region's buffer
AllocatedReleased(p, size) ==
    /\ Len(p.arena.regions) <= MaxRegions
    /\ nallocs < MaxAllocs
    /\ nallocs' = nallocs + 1
    /\ \/ /\ astate' = "aborted"
          /\ UNCHANGED <<arena, blocks, newest>>
       \/ /\ astate' = "undefined"
          /\ arena' = p.arena
          /\ newest' = [region |-> p.region, hdr |-> p.hdr, size |-> size]
          /\ blocks' = blocks \cup
                 {Block(p.region, p.hdr, size,
                        IF p.region > released
                        THEN [region |-> p.region, hdr |-> p.hdr]
                        ELSE [region |-> 0, hdr |-> 0],
                        OwnPayload(p, size))}

Alloc(size) ==
    /\ astate = "ok"
    /\ IF released = 0
       THEN Allocated(arena_alloc(arena, size), size, blocks,
                      OwnPayload(arena_alloc(arena, size), size))
       ELSE AllocatedReleased(arena_alloc(arena, size), size)
    /\ reclaimed' = NoBlock
    /\ UNCHANGED nreallocs
    /\ UNCHANGED <<hvars, foreign, released>>

Free(b) ==
    /\ astate = "ok"
    /\ b \in Live
    /\ LET r == arena_free(arena, b)
       IN IF IsAbort(r)
          THEN /\ astate' = "aborted"
               /\ UNCHANGED <<arena, blocks, reclaimed>>
          ELSE /\ arena' = r
               /\ astate' = "ok"
               /\ IF AtTop(arena, b)
                  THEN /\ blocks' = blocks \ {b}
                       /\ reclaimed' = [region |-> b.region, hdr |-> b.hdr,
                                        size |-> b.size]
                  ELSE /\ blocks' = (blocks \ {b}) \cup {[b EXCEPT !.state = "freed"]}
                       /\ reclaimed' = NoBlock
    /\ UNCHANGED <<nallocs, nreallocs, newest>>
    /\ UNCHANGED <<hvars, foreign, released>>

Realloc(b, size) ==
    /\ astate = "ok"
    /\ b \in Live
    /\ nreallocs < MaxReallocs
    /\ nreallocs' = nreallocs + 1
    /\ LET path == arena_realloc_path(arena, b, size)
       IN CASE path = "shrink" ->
                 /\ blocks' = (blocks \ {b}) \cup {[b EXCEPT !.size = size]}
                 /\ UNCHANGED <<arena, astate, nallocs, newest>>
            [] path = "grow" ->
                 /\ arena' = arena_realloc_grow(arena, b, size)
                 /\ blocks' = (blocks \ {b}) \cup {[b EXCEPT !.size = size]}
                 /\ UNCHANGED <<astate, nallocs, newest>>
            [] path = "move" ->
                 Allocated(arena_alloc(arena, size), size,
                           (blocks \ {b}) \cup {[b EXCEPT !.state = "moved"]},
                           CopiedPayload(b))
            [] path = "abort" ->
                 /\ astate' = "aborted"
                 /\ UNCHANGED <<arena, blocks, nallocs, newest>>
    /\ reclaimed' = NoBlock
    /\ UNCHANGED <<hvars, foreign, released>>

\* arena_deinit hands every region of the chain back and sets total to 0;
\* head and tail keep pointing to the released regions, and every block is
\* gone with its region. A second arena_deinit walks the released chain,
\* which is undefined behaviour.
arena_deinit(a) == [a EXCEPT !.total = 0]

Deinit ==
    /\ astate = "ok"
    /\ IF released = 0
       THEN /\ arena' = arena_deinit(arena)
            /\ released' = Len(arena.regions)
            /\ blocks' = {}
            /\ UNCHANGED astate
       ELSE /\ astate' \in {"aborted", "undefined"}
            /\ arena' = arena_deinit(arena)
            /\ UNCHANGED <<released, blocks>>
    /\ newest' = NoBlock
    /\ reclaimed' = NoBlock
    /\ UNCHANGED <<nallocs, nreallocs, foreign>>
    /\ UNCHANGED hvars

\* arena_free of the pointer of some live block
FreeSome == \E b \in blocks : Free(b)

\* arena_realloc of the pointer of some live block
ReallocSome == \E b \in blocks, size \in ReallocSizes : Realloc(b, size)

NextArena ==
    \/ ArenaInit
    \/ \E size \in AllocSizes : Alloc(size)
    \/ FreeSome
    \/ ReallocSome

SpecArena == Init /\ [][NextArena]_vars

NextDeinit ==
    \/ NextArena
    \/ Deinit

\* the arena used by a program that also tears it down
SpecDeinit == Init /\ [][NextDeinit]_vars

\* the sizes of AllocSizes and one that no default region holds
PlacementSizes == AllocSizes \cup {ARENA_DEFAULT_CAPACITY}

NextPlacement ==
    \/ ArenaInit
    \/ \E size \in PlacementSizes : Alloc(size)
    \/ FreeSome

\* allocations and frees, with a size that needs a region of its own
SpecPlacement == Init /\ [][NextPlacement]_vars

\* a pointer into memory that is no region of the arena, as arena_free and
\* arena_realloc see it: the header they read in front of it holds foreign
ForeignBlock == [region |-> 0, hdr |-> 0, size |-> foreign]

\* arena_free of the foreign pointer
FreeForeign ==
    /\ astate = "ok"
    /\ released = 0
    /\ LET r == arena_free(arena, ForeignBlock)
       IN IF IsAbort(r)
          THEN /\ astate' = "aborted"
               /\ UNCHANGED arena
          ELSE /\ astate' = "ok"
               /\ arena' = r
    /\ reclaimed' = NoBlock
    /\ UNCHANGED <<blocks, nallocs, nreallocs, newest, foreign>>
    /\ UNCHANGED <<hvars, released>>

\* arena_realloc of the foreign pointer
ReallocForeign(size) ==
    /\ astate = "ok"
    /\ released = 0
    /\ nreallocs < MaxReallocs
    /\ nreallocs' = nreallocs + 1
    /\ LET path == arena_realloc_path(arena, ForeignBlock, size)
       IN CASE path = "shrink" ->
                 /\ foreign' = size
                 /\ UNCHANGED <<arena, blocks, astate, nallocs, newest>>
            [] path = "grow" ->
                 /\ foreign' = size
                 /\ arena' = arena_realloc_grow(arena, ForeignBlock, size)
                 /\ UNCHANGED <<blocks, astate, nallocs, newest>>
            [] path = "move" ->
                 /\ Allocated(arena_alloc(arena, size), size, blocks,
                              CopiedPayload(ForeignBlock))
                 /\ UNCHANGED foreign
            [] path = "abort" ->
                 /\ astate' = "aborted"
                 /\ UNCHANGED <<arena, blocks, nallocs, newest, foreign>>
    /\ reclaimed' = NoBlock
    /\ UNCHANGED <<hvars, released>>

NextForeign ==
    \/ NextArena
    \/ FreeForeign
    \/ \E size \in ReallocSizes : ReallocForeign(size)

\* the arena used by a program that also passes it a pointer it does not own
SpecForeign == Init /\ [][NextForeign]_vars

---------------------------------------------------------------------------
(* The program using the table: one action per operation.                  *)

\* the outcome of an operation that yields r: abort() ends the program and
\* leaves the table as it was
Outcome(r, op) ==
    IF IsAbort(r)
    THEN /\ aborted' = TRUE
         /\ UNCHANGED <<hm, lastOp>>
    ELSE /\ hm' = r
         /\ lastOp' = op
         /\ UNCHANGED aborted

Put(k, v) ==
    /\ ~aborted
    /\ LoadFactorReached(hm) => hm.capacity * 2 <= MaxCapacity
    /\ \E null \in (IF LoadFactorReached(hm) THEN CallocNull(hm.capacity * 2)
                                             ELSE {FALSE}) :
          LET r == hashmap_put(hm, v, k, null)
          IN /\ Outcome(r, "put")
             /\ expect' = IF IsAbort(r) THEN expect ELSE [expect EXCEPT ![k] = v]
    /\ UNCHANGED removes
    /\ UNCHANGED avars

\* with capacity 0 (an array of no items) the first probe of hashmap_lookup
\* reads outside the array: the read faults, or it yields bytes that match no
\* key
Remove(k) ==
    /\ ~aborted
    /\ removes < MaxRemoves
    /\ removes' = removes + 1
    /\ IF hm.capacity = 0
       THEN /\ aborted' \in BOOLEAN
            /\ lastOp' = IF aborted' THEN lastOp ELSE "remove"
            /\ UNCHANGED <<hm, expect>>
       ELSE /\ Outcome(hashmap_remove(hm, k), "remove")
            /\ expect' = [expect EXCEPT ![k] = NoValue]
    /\ UNCHANGED avars

Grow ==
    /\ ~aborted
    /\ hm.capacity * 2 <= MaxCapacity
    /\ \E null \in CallocNull(hm.capacity * 2) :
          Outcome(hashmap_grow(hm, null), "grow")
    /\ UNCHANGED <<expect, removes>>
    /\ UNCHANGED avars

Shrink ==
    /\ ~aborted
    /\ \E null \in CallocNull(IF hm.count > hm.capacity \div 4
                               THEN hm.capacity ELSE hm.capacity \div 2) :
          Outcome(hashmap_shrink(hm, null), "shrink")
    /\ UNCHANGED <<expect, removes>>
    /\ UNCHANGED avars

\* a put of a key the table does not hold
PutFresh(k, v) ==
    /\ hm.capacity > 0
    /\ ~hashmap_contains(hm, k)
    /\ Put(k, v)

NextPutRemove ==
    \/ \E k \in Keys, v \in Values : Put(k, v)
    \/ \E k \in Keys : Remove(k)

SpecPutRemove == Init /\ [][NextPutRemove]_vars

NextFill == \E k \in FillKeys, v \in Values : PutFresh(k, v)

\* a fresh table that is only filled, with keys it does not hold yet
SpecFill == Init /\ [][NextFill]_vars

NextPutRemoveFill ==
    \/ \E k \in FillKeys, v \in FillValues : Put(k, v)
    \/ \E k \in Keys : Remove(k)

\* puts and removes of enough keys to fill the table to its threshold
SpecPutRemoveFill == Init /\ [][NextPutRemoveFill]_vars

Next ==
    \/ \E k \in Keys, v \in Values : Put(k, v)
    \/ \E k \in Keys : Remove(k)
    \/ Grow
    \/ Shrink

Spec == Init /\ [][Next]_vars

---------------------------------------------------------------------------
(* Properties of the hash table.                                           *)

IsPowerOfTwo(n) == \E e \in 0 .. HashBits : n = 2 ^ e

\* the slots of the table that are in use
UsedSlots(t) == { i \in 0 .. t.capacity - 1 : t.items[i].used }

\* the keys hashmap_contains reports
Present(t) == { k \in FillKeys : hashmap_contains(t, k) }

\* C1 (as claimed): every key whose latest put was not followed by a remove
\* of it is contained in the table and reads back the value of that put.
C1_RoundTrip ==
    \A k \in Keys :
        expect[k] # NoValue =>
            /\ hashmap_contains(hm, k)
            /\ hashmap_get(hm, k) = expect[k]

\* the slot next to the home slot of k in table t
NextToHome(t, k) == BitAnd(HomeSlot(t.capacity, k) + 1, HASHMAP_CAP_MASK(t))

\* key b sits one slot after its home slot, and the home slot is unused: the
\* state that removing the key of the home slot leaves
DisplacedBehindGap(t, b) ==
    /\ t.capacity >= 2
    /\ ~t.items[HomeSlot(t.capacity, b)].used
    /\ t.items[NextToHome(t, b)].used
    /\ t.items[NextToHome(t, b)].key = b

\* C2: when key B was displaced by one slot by a key A of the same home slot
\* and A has been removed, the lookup of B still returns B's slot, and get
\* its value.
C2_RemovalGap ==
    \A b \in Keys :
        (~aborted /\ DisplacedBehindGap(hm, b)) =>
            /\ hashmap_lookup(hm, b) = NextToHome(hm, b)
            /\ hashmap_get(hm, b) = hm.items[NextToHome(hm, b)].data
            /\ hashmap_get(hm, b) \in Values

\* C2, its case: hashmap_remove has just removed the key of the home slot of
\* a key that is displaced by one.
C2_Witness ==
    /\ lastOp = "remove"
    /\ \E b \in Keys : DisplacedBehindGap(hm, b) /\ expect[b] # NoValue

\* C3 (as claimed): right after a put has returned, count / capacity < 0.75.
C3_LoadBelow075 ==
    (lastOp = "put" /\ hm.capacity > 0) => 4 * hm.count < 3 * hm.capacity

\* C3 (amended): right after a put has returned on a table of capacity 4 or
\* more, count / capacity <= 0.75.
C3_LoadAtMost075 ==
    (lastOp = "put" /\ hm.capacity >= 4) => 4 * hm.count <= 3 * hm.capacity

\* C3, its case: a put has returned and left the table at exactly 0.75.
C3_Witness ==
    /\ lastOp = "put"
    /\ hm.capacity >= 4
    /\ 4 * hm.count = 3 * hm.capacity

\* every key put so far is contained and reads back its value
AllRetrievable ==
    \A k \in FillKeys :
        expect[k] # NoValue =>
            hashmap_contains(hm, k) /\ hashmap_get(hm, k) = expect[k]

\* C4 (as claimed): 5 distinct keys put into a fresh table leave capacity 8,
\* and 6 distinct keys leave it at capacity 16 with all 6 retrievable.
C4_GrowAtSixth ==
    /\ hm.count = 5 => hm.capacity = HASHMAP_CAP_DEFAULT
    /\ hm.count = 6 => hm.capacity = 2 * HASHMAP_CAP_DEFAULT /\ AllRetrievable

\* C4 (amended): up to 6 distinct keys put into a fresh table leave capacity
\* 8; the put of the 7th grows the table to 16, and all keys put are
\* retrievable then, as they are before.
C4_GrowAtSeventh ==
    /\ hm.count <= 6 => hm.capacity = HASHMAP_CAP_DEFAULT
    /\ hm.count >= 7 => hm.capacity = 2 * HASHMAP_CAP_DEFAULT
    /\ Cardinality({ k \in FillKeys : expect[k] # NoValue }) = hm.count
    /\ AllRetrievable

\* C4, its case: the 7th distinct key has been put.
C4_Witness ==
    /\ lastOp = "put"
    /\ hm.count = 7
    /\ hm.capacity = 2 * HASHMAP_CAP_DEFAULT
    /\ Cardinality(Present(hm)) = 7

\* C5 (as claimed): capacity is a power of two and count <= capacity.
C5_CapacityPowerOfTwo ==
    /\ IsPowerOfTwo(hm.capacity)
    /\ hm.count <= hm.capacity

\* C6 (as claimed): a shrink with count <= capacity / 4 halves the capacity
\* and keeps every key with its value, and count; a shrink with
\* count > capacity / 4 changes nothing.
C6_ShrinkStep ==
    (Shrink /\ ~aborted' /\ hm.capacity >= 1) =>
        IF hm.count <= hm.capacity \div 4
        THEN /\ hm'.capacity = hm.capacity \div 2
             /\ hm'.count = hm.count
             /\ \A k \in Keys :
                    hashmap_contains(hm, k) =>
                        /\ hm'.capacity >= 1
                        /\ hashmap_contains(hm', k)
                        /\ hashmap_get(hm', k) = hashmap_get(hm, k)
        ELSE hm' = hm

C6_ShrinkPreserves == [][C6_ShrinkStep]_vars


\* C13: in every state that puts and removes reach, no operation has aborted
\* and the table hashmap_put would hand to hashmap_put_nogrow has count below
\* capacity and so an unused slot for the probe loop to end at.
C13_NoExhaustion ==
    /\ ~aborted
    /\ LET g == hashmap_put_entry(hm, FALSE)
       IN /\ ~IsAbort(g)
          /\ g.count < g.capacity
          /\ \E i \in 0 .. g.capacity - 1 : ~g.items[i].used

\* a put has grown the table, after a remove, and the table is at its
\* threshold again: the next put grows first
C13_Witness ==
    /\ lastOp = "put"
    /\ removes > 0
    /\ hm.capacity > HASHMAP_CAP_DEFAULT
    /\ hm.count >= HASHMAP_CAP_DEFAULT

\* how far the used slot i of table t lies behind the home slot of its key
Displacement(t, i) ==
    (i - HomeSlot(t.capacity, t.items[i].key) + t.capacity) % t.capacity

\* the longest displacement in table t, 0 for an empty table
MaxDisplacement(t) ==
    IF UsedSlots(t) = {} THEN 0
    ELSE CHOOSE d \in { Displacement(t, i) : i \in UsedSlots(t) } :
             \A i \in UsedSlots(t) : Displacement(t, i) <= d

\* every used slot lies at most maxcol slots behind the home slot of its
\* key, and hashmap_lookup finds its key
ProbeBound(t) ==
    \A i \in UsedSlots(t) :
        /\ Displacement(t, i) <= t.maxcol
        /\ hashmap_contains(t, t.items[i].key)

\* the step rebuilds the table: a grow, or a shrink of a table at most a
\* quarter full
Rebuilds ==
    /\ lastOp' \in {"grow", "shrink"}
    /\ hm' # hm

C14_ProbeStep ==
    ~aborted' =>
        /\ ProbeBound(hm')
        /\ Rebuilds => hm'.maxcol = MaxDisplacement(hm')

\* C14: after every put, remove, grow and shrink each used slot lies at most
\* maxcol slots behind the home slot of its key, so the maxcol + 1 probes of
\* hashmap_lookup reach it; and after a rebuild maxcol is the longest
\* displacement of the new array.
C14_ProbeBound == [][C14_ProbeStep]_vars

\* a rebuilt table, after a remove, that holds a displaced key
C14_Witness ==
    /\ ~aborted
    /\ \/ lastOp = "grow"
       \/ lastOp = "shrink" /\ hm.capacity < HASHMAP_CAP_DEFAULT
    /\ removes > 0
    /\ hm.maxcol >= 1
    /\ \E i \in UsedSlots(hm) : Displacement(hm, i) >= 1

\* the slot at which the probe loop of hashmap_put_nogrow ends for key kbuf
\* in table t
PutSlot(t, kbuf) ==
    hashmap_put_nogrow_probe(t, kbuf,
                             BitAnd(HashOf[kbuf], HASHMAP_CAP_MASK(t)), 0)[1]

\* count is the number of used slots
CountIsUsed(t) == t.count = Cardinality(UsedSlots(t))

\* the change of count that C15 states for a put of key k
PutCountRule(k) ==
    LET g == hashmap_put_entry(hm, FALSE)
    IN IF g.items[PutSlot(g, k)].used
       THEN hm'.count = hm.count
       ELSE hm'.count = hm.count + 1

\* the change of count that C15 states for a remove of key k
RemoveCountRule(k) ==
    IF hm.capacity > 0 /\ hashmap_contains(hm, k)
    THEN hm'.count = hm.count - 1
    ELSE hm' = hm

C15_CountStep ==
    ~aborted' =>
        /\ CountIsUsed(hm')
        /\ \A k \in Keys : \A v \in Values : Put(k, v) => PutCountRule(k)
        /\ \A k \in Keys : Remove(k) => RemoveCountRule(k)

\* C15 (as claimed): after every put, remove, grow and shrink count is the
\* number of used slots; a put that fills an unused slot raises count by 1,
\* a put that overwrites a key leaves it unchanged, a remove of a present key
\* lowers it by 1 and a remove of an absent key changes nothing.
C15_CountTracksUsed == [][C15_CountStep]_vars

C18_RemoveStep ==
    \A k \in Keys :
        (Remove(k) /\ ~aborted') => ~hashmap_contains(hm', k)

\* C18 (as claimed): right after a remove of key k the table does not
\* contain k, whatever puts and removes came before.
C18_RemoveEffective == [][C18_RemoveStep]_vars

\* no two used slots of table t hold the same key
KeysUnique(t) ==
    \A i \in UsedSlots(t) : \A j \in UsedSlots(t) :
        i # j => t.items[i].key # t.items[j].key

\* C19 (as claimed): no two used slots hold the same key, and count is the
\* number of keys that hashmap_contains reports.
C19_KeyUniqueness ==
    ~aborted =>
        /\ KeysUnique(hm)
        /\ hm.count = (IF hm.capacity = 0 THEN 0 ELSE Cardinality(Present(hm)))

---------------------------------------------------------------------------
(* Properties of the arena.                                                *)

\* blocks b1 and b2 occupy a common byte: header and payload of a block are
\* the bytes [at.hdr, at.hdr + HeaderSize + size) of the region at.region
Overlap(b1, b2) ==
    /\ b1.at.region # 0
    /\ b1.at.region = b2.at.region
    /\ b1.at.hdr < b2.at.hdr + HeaderSize + b2.size
    /\ b2.at.hdr < b1.at.hdr + HeaderSize + b1.size

\* header and payload of block b lie in the buffer of the region it was
\* allocated from
InsideBuffer(b) ==
    /\ b.at.region = b.region
    /\ b.region \in 1 .. Len(arena.regions)
    /\ 0 <= b.hdr
    /\ EndOf(b) <= arena.regions[b.region].size

\* C7 (as claimed): the byte ranges of the live allocations, header included,
\* are pairwise disjoint, and each lies inside the buffer of its region.
C7_OverlapFreedom ==
    /\ \A b1 \in Live : \A b2 \in Live \ {b1} : ~Overlap(b1, b2)
    /\ \A b \in Live : InsideBuffer(b)

\* C8 (as claimed): the offset of every region of the chain is at least 0 and
\* at most the size of the region.
C8_OffsetBound ==
    \A i \in 1 .. Len(arena.regions) :
        /\ 0 <= arena.regions[i].offset
        /\ arena.regions[i].offset <= arena.regions[i].size

\* the latest operation freed the most recent allocation, at the top of its
\* region
FreedNewestAtTop ==
    /\ reclaimed # NoBlock
    /\ reclaimed.region = newest.region
    /\ reclaimed.hdr = newest.hdr

C9_ReclaimStep ==
    FreedNewestAtTop =>
        /\ arena.regions[reclaimed.region].offset = reclaimed.hdr
        /\ ( /\ nallocs' = nallocs + 1
             /\ astate' = "ok"
             /\ newest'.region = reclaimed.region
             /\ newest'.size <= reclaimed.size )
           => newest'.hdr = reclaimed.hdr

\* C9 (as claimed): once the most recent allocation B has been freed at the
\* top of its region, the offset of the region is the offset B was placed at,
\* and the next allocation of at most B's size made in that region is placed
\* at that offset.
C9_TopReclaim == [][C9_ReclaimStep]_vars

\* no block occupies a byte of a block that was freed while not at the top
NoReuse ==
    \A g \in { b \in blocks : b.state = "freed" } :
        \A b \in blocks \ {g} : ~Overlap(b, g)

C10_FreeStep ==
    /\ \A b \in Live : (~AtTop(arena, b) /\ Free(b)) => arena' = arena
    /\ NoReuse'

IsNewest(b) ==
    /\ b.region = newest.region
    /\ b.hdr = newest.hdr

\* the region of block b has room to grow b to size bytes
HasRoomToGrow(b, size) ==
    /\ arena.regions[b.region].offset <= arena.regions[b.region].size
    /\ size - b.size <=
           arena.regions[b.region].size - arena.regions[b.region].offset

C11_GrowStep ==
    \A b \in Live : \A size \in ReallocSizes :
        ( /\ IsNewest(b)
          /\ size > b.size
          /\ HasRoomToGrow(b, size)
          /\ Realloc(b, size) )
        => [b EXCEPT !.size = size] \in blocks'

\* C11 (as claimed): an arena_realloc that grows the most recent allocation,
\* whatever was done to that block before (a shrinking arena_realloc too),
\* returns the same pointer when its region has room for the growth.
C11_PointerStability == [][C11_GrowStep]_vars

C12_ForeignStep ==
    (FreeForeign \/ \E size \in ReallocSizes : ReallocForeign(size))
        => /\ astate' = "aborted"
           /\ UNCHANGED <<arena, blocks, foreign>>

\* C12 (as claimed): arena_free and arena_realloc of a pointer that lies in
\* no region of the arena, for a new size below, equal to or above the size
\* stored in front of it, end in abort() and change no header and no region.
C12_ForeignAborts == [][C12_ForeignStep]_vars

\* what C16 states of an arena_realloc of block b to size bytes
ReallocRule(b, size) ==
    IF arena_realloc_path(arena, b, size) = "move"
    THEN /\ [b EXCEPT !.state = "moved"] \in blocks'
         /\ arena'.regions[b.region].offset >= arena.regions[b.region].offset
         /\ \E n \in blocks' \ blocks :
                /\ n.state = "live"
                /\ n.size = size
                /\ n.data.of = [region |-> b.region, hdr |-> b.hdr]
                /\ n.data.len >= b.size
                /\ ~Overlap(n, b)
    ELSE [b EXCEPT !.size = size] \in blocks'

C16_ReallocStep ==
    \A b \in Live : \A size \in ReallocSizes :
        (Realloc(b, size) /\ astate' # "aborted") => ReallocRule(b, size)

\* C16 (as claimed): arena_realloc returns a block whose payload starts with
\* the old payload, up to the smaller of the two sizes; when it moves the
\* block the result is a new allocation of the new size, disjoint from the
\* old block, and the old block and the offset of its region stay as they
\* were.
C16_ReallocPreserves == [][C16_ReallocStep]_vars

\* the regions of the chain with room for required bytes
Qualifying(required) ==
    { i \in 1 .. Len(arena.regions) :
          arena.regions[i].size - arena.regions[i].offset >= required }

\* the first region of a nonempty set of regions, in chain order
FirstOf(Q) == CHOOSE i \in Q : \A j \in Q : i <= j

\* what C17 states of an arena_alloc of size bytes
PlacementRule(size) ==
    LET required == HeaderSize + size
        Q == Qualifying(required)
        n == Len(arena.regions)
    IN IF Q # {}
       THEN /\ Len(arena'.regions) = n
            /\ newest' = [region |-> FirstOf(Q),
                          hdr |-> arena.regions[FirstOf(Q)].offset,
                          size |-> size]
            /\ \A i \in 1 .. n :
                   arena'.regions[i] =
                       IF i = FirstOf(Q)
                       THEN [arena.regions[i] EXCEPT !.offset = @ + required]
                       ELSE arena.regions[i]
       ELSE /\ Len(arena'.regions) = n + 1
            /\ newest' = [region |-> n + 1, hdr |-> 0, size |-> size]
            /\ arena'.regions[n + 1].size >= required
            /\ arena'.regions[n + 1].size >= ARENA_DEFAULT_CAPACITY
            /\ arena'.regions[n + 1].offset = required
            /\ \A i \in 1 .. n : arena'.regions[i] = arena.regions[i]

C17_AllocStep ==
    \A size \in PlacementSizes :
        (Alloc(size) /\ astate' # "aborted") => PlacementRule(size)

\* C17 (as claimed): arena_alloc places the block in the first region, from
\* head to tail, with size - offset >= header size + size; when there is
\* none it appends exactly one region, of at least that many bytes and at
\* least the default capacity, and places the block at its offset 0; the
\* offset of the chosen region grows by header size + size and no other
\* offset changes.
C17_FirstFit == [][C17_AllocStep]_vars

\* no block lies in a region that arena_deinit has released
NoBlockInReleased == \A b \in blocks : b.region > released

C20_DeinitStep ==
    /\ (Deinit /\ astate' = "ok") =>
           /\ arena'.regions = <<>>
           /\ arena'.total = 0
    /\ NoBlockInReleased'

\* C20 (as claimed): after arena_deinit the arena has no region (head and
\* tail are cleared) and total 0, and no later arena_alloc places a block in
\* a region that was released.
C20_DeinitEmpties == [][C20_DeinitStep]_vars

============================================================================
